---- MODULE Spec2Model ----
(***************************************************************************)
(* Model of the assisterNode backend: token authentication backed by the   *)
(* user_tokens ledger (src/auth.js, src/middleware/authMiddleware.js),     *)
(* ownership-scoped todo and category routes and the in-memory reminder    *)
(* registry scheduledReminderJobs (src/app.js).                            *)
(*                                                                         *)
(* Time is the wall clock in whole seconds.  Every awaited call of a       *)
(* handler is one step: the awaited operation takes effect and the handler *)
(* runs on to its next await (or to its response).  Steps of different     *)
(* requests and timer callbacks interleave freely, as on node's event loop.*)
(***************************************************************************)
EXTENDS Integers, Sequences, FiniteSets, TLC

\* ------------------------------------------------------------------ bounds
MaxTime == 2        \* the clock stops advancing second by second here
MaxJobs == 2        \* node-schedule jobs ever created
MaxTodoId == 2      \* todo rows ever inserted (AUTO_INCREMENT values)
MaxReq == 2         \* HTTP requests in flight at once
MaxSessions == 2
\* todo and category requests in flight at once
MaxTodoReq == 1    \* tokens generated by signins

\* ------------------------------------------------------- program constants
\* expiresIn: '365d', in seconds
ExpiresIn == 365 * 24 * 60 * 60
\* 'Asia/Kolkata' is UTC+05:30 all year, in seconds
OffsetIST == (5 * 60 + 30) * 60

UserIds == {1, 2}
\* the rows of users with those ids
RegisteredUsers == {[id |-> 1, email |-> "a@x", phone |-> "p1"],
                    [id |-> 2, email |-> "b@x", phone |-> "p2"]}
Devices == {"d1", "d2"}
TodoIds == 1..MaxTodoId

\* A key of the Map scheduledReminderJobs.  POST /todos uses result.insertId,
\* a number; PUT and DELETE use req.params.id, a string.  Map compares keys
\* with SameValueZero, so 1 and "1" are different keys.
Keys == {"num", "str"} \X TodoIds
NumKey(id) == <<"num", id>>
StrKey(id) == <<"str", id>>

VARIABLES
  now,                      \* new Date(), seconds
  scheduledReminderJobs,    \* the Map: key -> index into jobs, 0 when absent
  jobs,                     \* every node-schedule Job created, in order
  lastCall,                 \* the last direct call of the scheduler (history)
  localOffset,              \* UTC offset of the process's time zone, seconds
  users,                    \* table users: rows [id, email, phone]
  user_tokens,              \* table user_tokens: rows <<user_id, token>>
  user_fcm_tokens,          \* table user_fcm_tokens: fcm_token -> user_id, 0 when no row
  todos,                    \* table todos: id -> row, NoRow when absent
  categories,               \* table categories: id -> owner user_id, 0 when absent
  nextTodoId,               \* AUTO_INCREMENT of todos
  reqs,                     \* the requests in flight
  resp,                     \* the last response sent (history)
  revoked,                  \* tokens a completed logout presented (history)
  issued                    \* number of generateToken calls (history)

vars == <<now, scheduledReminderJobs, jobs, lastCall, localOffset, users, user_tokens,
          user_fcm_tokens, todos, categories, nextTodoId, reqs, resp,
          revoked, issued>>

schedVars == <<scheduledReminderJobs, jobs>>
dbVars == <<localOffset, users, user_tokens, user_fcm_tokens, todos, categories, nextTodoId>>

\* ------------------------------------------------------ reminder scheduler
\* Job.cancel(): drops the pending invocation.  A job whose callback already
\* started (or finished) has none left.
JobCancel(jbs, j) ==
  IF jbs[j].state = "live" THEN [jbs EXCEPT ![j].state = "cancelled"] ELSE jbs

NewJob(key, at, fcmTokens) ==
  [key |-> key, todo |-> key[2], at |-> at, fcm |-> fcmTokens,
   state |-> "live", firedAt |-> 0]

\* mutant: the existing job is not cancelled before the new one is set.
ScheduleNoReplace(reg, jbs, key, at, fcmTokens) ==
  IF at <= now
    THEN [reg |-> reg, jobs |-> jbs, err |-> FALSE]
    ELSE [reg |-> [reg EXCEPT ![key] = Len(jbs) + 1],
          jobs |-> Append(jbs, NewJob(key, at, fcmTokens)),
          err |-> FALSE]

\* mutant: the check against new Date() is missing.
ScheduleNoPastCheck(reg, jbs, key, at, fcmTokens) ==
  LET jbs1 == IF reg[key] # 0 THEN JobCancel(jbs, reg[key]) ELSE jbs
  IN [reg |-> [reg EXCEPT ![key] = Len(jbs1) + 1],
      jobs |-> Append(jbs1, NewJob(key, at, fcmTokens)),
      err |-> FALSE]

scheduleReminderNotification(reg, jbs, key, at, fcmTokens) ==
  LET jbs1 == IF reg[key] # 0 THEN JobCancel(jbs, reg[key]) ELSE jbs
  IN IF at <= now
       THEN [reg |-> reg, jobs |-> jbs1, err |-> FALSE]
       ELSE [reg |-> [reg EXCEPT ![key] = Len(jbs1) + 1],
             jobs |-> Append(jbs1, NewJob(key, at, fcmTokens)),
             err |-> FALSE]

\* mutant: no has() guard, so get() of an absent key is undefined and
\* .cancel() on it throws.
CancelNoGuard(reg, jbs, key) ==
  IF reg[key] # 0
    THEN [reg |-> [reg EXCEPT ![key] = 0], jobs |-> JobCancel(jbs, reg[key]),
          err |-> FALSE]
    ELSE [reg |-> reg, jobs |-> jbs, err |-> TRUE]

cancelReminderNotification(reg, jbs, key) ==
  IF reg[key] # 0
    THEN [reg |-> [reg EXCEPT ![key] = 0], jobs |-> JobCancel(jbs, reg[key]),
          err |-> FALSE]
    ELSE [reg |-> reg, jobs |-> jbs, err |-> FALSE]

LiveJobs == {j \in 1..Len(jobs) : jobs[j].state = "live"}
LiveJobsOf(id) == {j \in LiveJobs : jobs[j].todo = id}
DueJobs == {j \in LiveJobs : jobs[j].at <= now}

\* ------------------------------------------------------------------ tokens
\* A bearer token string: the payload {id, email, iat, exp = iat + ExpiresIn}
\* and whether its signature was made with JWT_SECRET.  The email is fixed by
\* the id (user rows are never changed), so the id stands for both.
Token(id, iat, sig) == [id |-> id, iat |-> iat, sig |-> sig]
NoToken == Token(0, 0, "bad")

\* jwt.sign({id, email}, secret, {expiresIn: '365d'}): iat is the current
\* second, and the HS256 signature is a function of the payload.
generateToken(user) == Token(user, now, "ok")

\* mutant: verification without ignoreExpiration.
VerifyWithExpiry(token) == token.sig = "ok" /\ now < token.iat + ExpiresIn

\* jwt.verify(token, secret, {ignoreExpiration: true}): TRUE when no error.
jwtVerify(token) == token.sig = "ok"

\* ---------------------------------------------------------------- requests
NoRow == [owner |-> 0, status |-> "", category |-> 0, due |-> 0, future |-> FALSE,
          touched |-> FALSE]

\* A request in flight: its route (op), where its handler is suspended (pc),
\* and the handler's locals.
IdleReq ==
  [op |-> "idle", pc |-> "idle", tok |-> NoToken, uid |-> 0, id |-> 0,
   due |-> 0, cat |-> 0, status |-> "", fcm |-> {}, seen |-> FALSE, rev |-> FALSE,
   email |-> "", phone |-> ""]

\* The last response sent, with the request it answers; none once a later
\* request has been received.
NoResp ==
  [op |-> "none", sig |-> FALSE, uid |-> 0, st |-> 0, err |-> "", rows |-> {},
   seen |-> FALSE, rev |-> FALSE]

Response(r, status, error, rows) ==
  [op |-> r.op, sig |-> r.tok.sig = "ok", uid |-> r.uid, st |-> status,
   err |-> error, rows |-> rows, seen |-> r.seen, rev |-> r.rev]

Slots == 1..MaxReq
Free(s) == reqs[s].pc = "idle"
\* a new request takes the first free slot
FirstFree(s) == Free(s) /\ \A t \in 1..(s - 1) : ~Free(t)

\* res.status(status).json(...): the request is over
Respond(s, r, status, error, rows) ==
  /\ reqs' = [reqs EXCEPT ![s] = IdleReq]
  /\ resp' = Response(r, status, error, rows)

\* ------------------------------------------------------------- middleware
\* mutant: the ledger is asked for the user only, not for the token.
LookupByUser(user_id, token) == {r \in user_tokens : r[1] = user_id}

\* SELECT * FROM user_tokens WHERE user_id = ? AND token = ?
authLookup(user_id, token) == {r \in user_tokens : r[1] = user_id /\ r[2] = token}

\* whether the ledger holds the pair (payload id, token string)
InLedger(token) == <<token.id, token>> \in user_tokens

\* Tokens a client can present: one it was handed, or one it made itself
\* without the secret.
Forged == Token(1, 0, "bad")
Presentable == {r[2] : r \in user_tokens} \cup revoked \cup {Forged}

\* -------------------------------------------------------------------- Init
NoCall == [op |-> "none", key |-> NumKey(1), past |-> FALSE, had |-> FALSE]

\* The process has just started (empty registry), on a host set to UTC; the
\* database holds the two registered users, each signed in on one device in
\* the current second.
Init ==
  /\ now = 0
  /\ scheduledReminderJobs = [k \in Keys |-> 0]
  /\ jobs = <<>>
  /\ lastCall = NoCall
  /\ localOffset = 0
  /\ users = RegisteredUsers
  /\ user_tokens = {<<1, Token(1, 0, "ok")>>, <<2, Token(2, 0, "ok")>>}
  /\ user_fcm_tokens = [d \in Devices |-> IF d = "d1" THEN 1 ELSE 2]
  /\ todos = [i \in TodoIds |-> NoRow]
  /\ categories = [c \in {1} |-> 1]
  /\ nextTodoId = 1
  /\ reqs = [s \in Slots |-> IdleReq]
  /\ resp = NoResp
  /\ revoked = {}
  /\ issued = 2

\* ----------------------------------------------------------- clock, timers
\* One second passes.  A timer that is due fires in its second.
Tick ==
  /\ now % ExpiresIn < MaxTime
  /\ DueJobs = {}
  /\ now' = now + 1
  /\ UNCHANGED <<schedVars, lastCall, dbVars, reqs, resp, revoked, issued>>

\* The job's callback starts: sendPushNotification(fcmTokens, ...).  With no
\* tokens it returns at once and the callback runs on to
\* scheduledReminderJobs.delete(todoId); otherwise the callback is suspended
\* on sendMulticast.
TimerFire(j) ==
  /\ j \in DueJobs
  /\ IF jobs[j].fcm = {}
       THEN /\ jobs' = [jobs EXCEPT ![j].state = "fired", ![j].firedAt = now]
            /\ scheduledReminderJobs' = [scheduledReminderJobs EXCEPT ![jobs[j].key] = 0]
       ELSE /\ jobs' = [jobs EXCEPT ![j].state = "running", ![j].firedAt = now]
            /\ UNCHANGED scheduledReminderJobs
  /\ UNCHANGED <<now, lastCall, dbVars, reqs, resp, revoked, issued>>

\* sendMulticast settles (or throws, which sendPushNotification catches) and
\* the callback deletes the entry of its todoId.
TimerDone(j) ==
  /\ j \in 1..Len(jobs)
  /\ jobs[j].state = "running"
  /\ jobs' = [jobs EXCEPT ![j].state = "fired"]
  /\ scheduledReminderJobs' = [scheduledReminderJobs EXCEPT ![jobs[j].key] = 0]
  /\ UNCHANGED <<now, lastCall, dbVars, reqs, resp, revoked, issued>>

Timers == \E j \in 1..MaxJobs+1 : TimerFire(j) \/ TimerDone(j)

\* ------------------------------------------- direct calls of the scheduler
CallRecord(op, key, at) ==
  [op |-> op, key |-> key, past |-> at <= now, had |-> scheduledReminderJobs[key] # 0]

CallSchedule(key, at, fcmTokens) ==
  /\ Len(jobs) < MaxJobs
  /\ LET r == scheduleReminderNotification(scheduledReminderJobs, jobs, key, at, fcmTokens)
     IN /\ scheduledReminderJobs' = r.reg
        /\ jobs' = r.jobs
        /\ lastCall' = CallRecord("schedule", key, at)
  /\ UNCHANGED <<now, dbVars, reqs, resp, revoked, issued>>

CallCancel(key) ==
  /\ LET r == cancelReminderNotification(scheduledReminderJobs, jobs, key)
     IN /\ scheduledReminderJobs' = r.reg
        /\ jobs' = r.jobs
        /\ lastCall' = CallRecord("cancel", key, now + 1)
  /\ UNCHANGED <<now, dbVars, reqs, resp, revoked, issued>>

SchedKeys == {NumKey(1), NumKey(2)}

SchedNext ==
  \/ \E k \in SchedKeys, at \in 0..MaxTime, f \in {{}, {"d1"}} : CallSchedule(k, at, f)
  \/ \E k \in SchedKeys : CallCancel(k)
  \/ Timers
  \/ Tick

SchedSpec == Init /\ [][SchedNext]_vars

\* ---------------------------------------------------- Authorization header
\* A header value is a sequence of pieces: a word, one space, or a JWT.
\* <<>> is the header left out (req.headers['authorization'] undefined).
Word(w) == [w |-> w, t |-> NoToken]
Jwt(tok) == [w |-> "jwt", t |-> tok]
Space == Word(" ")

\* String.prototype.trim
RECURSIVE TrimLeft(_)
TrimLeft(h) == IF h # <<>> /\ Head(h) = Space THEN TrimLeft(Tail(h)) ELSE h
RECURSIVE TrimRight(_)
TrimRight(h) ==
  IF h # <<>> /\ h[Len(h)] = Space THEN TrimRight(SubSeq(h, 1, Len(h) - 1)) ELSE h
Trim(h) == TrimRight(TrimLeft(h))

\* String.prototype.split(' '): two spaces in a row enclose an empty part
RECURSIVE SplitSpaces(_)
SplitSpaces(h) ==
  IF \E i \in 1..Len(h) : h[i] = Space
    THEN LET i == CHOOSE i \in 1..Len(h) :
                    h[i] = Space /\ \A j \in 1..(i - 1) : h[j] # Space
         IN <<SubSeq(h, 1, i - 1)>> \o SplitSpaces(SubSeq(h, i + 1, Len(h)))
    ELSE <<h>>

\* mutant: the scheme word is not looked at
ParseAnyScheme(h) ==
  IF h = <<>>
    THEN [class |-> "none", token |-> NoToken]
    ELSE LET parts == SplitSpaces(Trim(h))
         IN IF Len(parts) # 2
              THEN [class |-> "malformed", token |-> NoToken]
              ELSE [class |-> "bearer",
                    token |-> IF Len(parts[2]) = 1 /\ parts[2][1].w = "jwt"
                                THEN parts[2][1].t ELSE NoToken]

\* authMiddleware's reading of the header: which rung it reaches and the
\* token handed to jwt.verify (text that is no JWT does not verify)
parseAuthorization(h) ==
  IF h = <<>>
    THEN [class |-> "none", token |-> NoToken]
    ELSE LET parts == SplitSpaces(Trim(h))
         IN IF Len(parts) # 2 \/ parts[1] # <<Word("Bearer")>>
              THEN [class |-> "malformed", token |-> NoToken]
              ELSE [class |-> "bearer",
                    token |-> IF Len(parts[2]) = 1 /\ parts[2][1].w = "jwt"
                                THEN parts[2][1].t ELSE NoToken]

\* header values clients send (HTTP strips outer blanks): well formed or
\* with another scheme for every token at hand, and some other shapes
HeadersWith(tok) ==
  {<<Word("Bearer"), Space, Jwt(tok)>>, <<Word("bearer"), Space, Jwt(tok)>>}
OtherHeaders ==
  {<<Jwt(Forged)>>,
   <<Word("Bearer")>>,
   <<Word("Bearer"), Space, Space, Jwt(Forged)>>,
   <<Word("Basic"), Space, Jwt(Forged)>>,
   <<Word("Bearer"), Space, Jwt(Forged), Space, Word("x")>>,
   <<Word("Bearer"), Space, Word("x")>>}
Headers == {<<>>} \cup OtherHeaders \cup UNION {HeadersWith(tok) : tok \in Presentable}

\* ------------------------------------------------- a request arrives (auth)
\* authMiddleware up to its ledger query: the header checks and jwt.verify
\* are synchronous.
ReqStart(s, op, hdr, tok) ==
  /\ FirstFree(s)
  /\ hdr # "bearer" => tok = NoToken
  /\ LET r0 == [IdleReq EXCEPT !.op = op, !.tok = tok,
                               !.rev = tok \in revoked,
                               !.seen = InLedger(tok)]
     IN IF hdr = "none" THEN Respond(s, r0, 401, "Token required", {})
        ELSE IF hdr = "malformed"
          THEN Respond(s, r0, 401, "Malformed Authorization header", {})
        ELSE IF ~jwtVerify(tok)
          THEN Respond(s, r0, 403, "Invalid token signature", {})
        ELSE reqs' = [reqs EXCEPT ![s] = [r0 EXCEPT !.pc = "mw"]] /\ resp' = NoResp
  /\ UNCHANGED <<now, schedVars, lastCall, dbVars, revoked, issued>>

\* a request with Authorization header value header
Receive(s, op, header) ==
  ReqStart(s, op, parseAuthorization(header).class, parseAuthorization(header).token)

\* the ledger query returned rows: req.user = payload, req.token = token, next()
Admitted(s) ==
  /\ reqs[s].pc = "mw"
  /\ authLookup(reqs[s].tok.id, reqs[s].tok) # {}

MwAdmit(r) == [r EXCEPT !.uid = r.tok.id, !.seen = InLedger(r.tok)]

\* mutant: the lookup clears the ledger of the rows it did not ask for
LedgerPruned(ledger, user_id, token) == authLookup(user_id, token)

\* the ledger after the middleware's SELECT
LedgerAfterLookup(ledger, user_id, token) == ledger

\* the ledger query returned no row
MwReject(s) ==
  /\ reqs[s].pc = "mw"
  /\ authLookup(reqs[s].tok.id, reqs[s].tok) = {}
  /\ Respond(s, [reqs[s] EXCEPT !.seen = InLedger(reqs[s].tok)], 403,
             "Token not recognized, please login again", {})
  /\ user_tokens' = LedgerAfterLookup(user_tokens, reqs[s].tok.id, reqs[s].tok)
  /\ UNCHANGED <<now, schedVars, lastCall, localOffset, users, user_fcm_tokens, todos,
                 categories, nextTodoId, revoked, issued>>

\* the ledger query failed (catch dbError)
MwError(s) ==
  /\ reqs[s].pc = "mw"
  /\ Respond(s, reqs[s], 500, "Database error", {})
  /\ UNCHANGED <<now, schedVars, lastCall, dbVars, revoked, issued>>

\* ------------------------------------------------------------ POST /logout
LogoutEntry(s) ==
  /\ Admitted(s) /\ reqs[s].op = "logout"
  /\ reqs' = [reqs EXCEPT ![s] = [MwAdmit(reqs[s]) EXCEPT !.pc = "delTok"]]
  /\ UNCHANGED <<now, schedVars, lastCall, dbVars, resp, revoked, issued>>

\* DELETE FROM user_tokens WHERE user_id = ? AND token = ?
LogoutDeleteToken(s) ==
  /\ reqs[s].pc = "delTok"
  /\ user_tokens' = user_tokens \ authLookup(reqs[s].uid, reqs[s].tok)
  /\ reqs' = [reqs EXCEPT ![s].pc = "delFcm"]
  /\ UNCHANGED <<now, schedVars, lastCall, localOffset, users, user_fcm_tokens, todos, categories,
                 nextTodoId, resp, revoked, issued>>

\* DELETE FROM user_fcm_tokens WHERE user_id = ?, then the response
LogoutDeleteFcm(s) ==
  /\ reqs[s].pc = "delFcm"
  /\ user_fcm_tokens' = [d \in Devices |->
       IF user_fcm_tokens[d] = reqs[s].uid THEN 0 ELSE user_fcm_tokens[d]]
  /\ Respond(s, reqs[s], 200, "Successfully logged out", {})
  /\ revoked' = revoked \cup {reqs[s].tok}
  /\ UNCHANGED <<now, schedVars, lastCall, localOffset, users, user_tokens, todos, categories,
                 nextTodoId, issued>>

Logout(s) == LogoutEntry(s) \/ LogoutDeleteToken(s) \/ LogoutDeleteFcm(s)

\* --------------------------------------------------------- GET /categories
Row(id, owner, status, category, due) ==
  [id |-> id, owner |-> owner, status |-> status, category |-> category, due |-> due]

CategoriesEntry(s) ==
  /\ Admitted(s) /\ reqs[s].op = "listCategories"
  /\ reqs' = [reqs EXCEPT ![s] = [MwAdmit(reqs[s]) EXCEPT !.pc = "selCats"]]
  /\ UNCHANGED <<now, schedVars, lastCall, dbVars, resp, revoked, issued>>

\* SELECT * FROM categories WHERE user_id = ?
CategoriesSelect(s) ==
  /\ reqs[s].pc = "selCats"
  /\ Respond(s, reqs[s], 200, "",
             {Row(c, categories[c], "", 0, 0) :
                c \in {x \in DOMAIN categories : categories[x] = reqs[s].uid}})
  /\ UNCHANGED <<now, schedVars, lastCall, dbVars, revoked, issued>>

ListCategories(s) == CategoriesEntry(s) \/ CategoriesSelect(s)

\* ------------------------------------------------------------ POST /signin
InFlight(op) == {s \in Slots : reqs[s].op = op}

\* identifier: a user's email or phone (the user id stands for it), 0 for one
\* no user has, -1 for the empty string.
SigninStart(s, identifier) ==
  /\ FirstFree(s)
  /\ issued + Cardinality(InFlight("signin")) < MaxSessions
  /\ LET r0 == [IdleReq EXCEPT !.op = "signin", !.id = identifier]
     IN IF identifier = -1
          THEN Respond(s, r0, 400, "Email or phone is required", {})
          ELSE reqs' = [reqs EXCEPT ![s] = [r0 EXCEPT !.pc = "selUser"]]
               /\ resp' = NoResp
  /\ UNCHANGED <<now, schedVars, lastCall, dbVars, revoked, issued>>

\* SELECT * FROM users WHERE email = ? OR phone = ?
SigninSelect(s) ==
  /\ reqs[s].pc = "selUser"
  /\ IF reqs[s].id \in UserIds
       THEN reqs' = [reqs EXCEPT ![s].pc = "compare"] /\ UNCHANGED resp
       ELSE Respond(s, reqs[s], 401, "Invalid credentials", {})
  /\ UNCHANGED <<now, schedVars, lastCall, dbVars, revoked, issued>>

\* bcrypt.compare(password, user.password) settles; on a match the token is
\* generated and its INSERT issued.
SigninCompare(s, passwordMatch) ==
  /\ reqs[s].pc = "compare"
  /\ IF passwordMatch
       THEN /\ reqs' = [reqs EXCEPT ![s].pc = "insTok", ![s].uid = reqs[s].id,
                                    ![s].tok = generateToken(reqs[s].id)]
            /\ issued' = issued + 1
            /\ UNCHANGED resp
       ELSE /\ Respond(s, reqs[s], 401, "Invalid credentials", {})
            /\ UNCHANGED issued
  /\ UNCHANGED <<now, schedVars, lastCall, dbVars, revoked>>

\* INSERT INTO user_tokens (user_id, token); fcmToken is the body's, "" when
\* absent.
SigninInsertToken(s, fcmToken) ==
  /\ reqs[s].pc = "insTok"
  /\ user_tokens' = user_tokens \cup {<<reqs[s].uid, reqs[s].tok>>}
  /\ IF fcmToken # ""
       THEN reqs' = [reqs EXCEPT ![s].pc = "insFcm", ![s].fcm = {fcmToken}]
            /\ UNCHANGED resp
       ELSE Respond(s, reqs[s], 200, "", {})
  /\ UNCHANGED <<now, schedVars, lastCall, localOffset, users, user_fcm_tokens, todos, categories,
                 nextTodoId, revoked, issued>>

\* INSERT INTO user_fcm_tokens ... ON DUPLICATE KEY UPDATE updated_at: a row
\* that already holds this fcm_token keeps its user_id.
SigninInsertFcm(s) ==
  /\ reqs[s].pc = "insFcm"
  /\ user_fcm_tokens' = [d \in Devices |->
       IF d \in reqs[s].fcm /\ user_fcm_tokens[d] = 0
         THEN reqs[s].uid ELSE user_fcm_tokens[d]]
  /\ Respond(s, reqs[s], 200, "", {})
  /\ UNCHANGED <<now, schedVars, lastCall, localOffset, users, user_tokens, todos, categories,
                 nextTodoId, revoked, issued>>

Signin(s) ==
  \/ SigninSelect(s)
  \/ \E m \in BOOLEAN : SigninCompare(s, m)
  \/ \E d \in {"d1", ""} : SigninInsertToken(s, d)
  \/ SigninInsertFcm(s)

\* A year passes with nothing in flight and no timer pending.
LongWait ==
  /\ now < ExpiresIn
  /\ \A s \in Slots : Free(s)
  /\ \A j \in 1..Len(jobs) : jobs[j].state \notin {"live", "running"}
  /\ now' = now + ExpiresIn
  /\ UNCHANGED <<schedVars, lastCall, dbVars, reqs, resp, revoked, issued>>

\* ------------------------------------------------ authentication subsystem
\* The routes that read or write the ledger.  A fresh database apart from the
\* two registered users.  These routes read the clock only for a token's iat
\* and exp, in whole seconds: requests follow one another within one second,
\* or a year apart (LongWait).
AuthInit ==
  /\ now = 0
  /\ scheduledReminderJobs = [k \in Keys |-> 0]
  /\ jobs = <<>>
  /\ lastCall = NoCall
  /\ localOffset = 0
  /\ users = RegisteredUsers
  /\ user_tokens = {}
  /\ user_fcm_tokens = [d \in Devices |-> 0]
  /\ todos = [i \in TodoIds |-> NoRow]
  /\ categories = [c \in {1} |-> 1]
  /\ nextTodoId = 1
  /\ reqs = [s \in Slots |-> IdleReq]
  /\ resp = NoResp
  /\ revoked = {}
  /\ issued = 0

AuthNext ==
  \/ \E s \in Slots, op \in {"logout", "listCategories"}, header \in Headers :
          Receive(s, op, header)
  \/ \E s \in Slots, ident \in UserIds \cup {0, -1} : SigninStart(s, ident)
  \/ \E s \in Slots : MwReject(s) \/ Logout(s) \/ ListCategories(s) \/ Signin(s)
  \/ LongWait

AuthSpec == AuthInit /\ [][AuthNext]_vars

\* ------------------------------------------------------------ POST /signup
Emails == {"a@x", "b@x"}
Phones == {"p1", "p2"}

\* the validators (isEmail, isMobilePhone, ...) and the handler up to its
\* first query; "" stands for a value a validator refuses
SignupStart(s, email, phone) ==
  /\ FirstFree(s)
  /\ LET r0 == [IdleReq EXCEPT !.op = "signup", !.email = email, !.phone = phone]
     IN IF email = "" \/ phone = ""
          THEN Respond(s, r0, 400, "Invalid value", {})
          ELSE reqs' = [reqs EXCEPT ![s] = [r0 EXCEPT !.pc = "exists"]] /\ resp' = NoResp
  /\ UNCHANGED <<now, schedVars, lastCall, dbVars, revoked, issued>>

\* rows of users WHERE email = ? OR phone = ?
existingUsers(email, phone) == {u \in users : u.email = email \/ u.phone = phone}

\* SELECT * FROM users WHERE email = ? OR phone = ? settles; bcrypt.hash starts
SignupExists(s) ==
  /\ reqs[s].pc = "exists"
  /\ IF existingUsers(reqs[s].email, reqs[s].phone) # {}
       THEN Respond(s, reqs[s], 409, "Email or phone already registered", {})
       ELSE reqs' = [reqs EXCEPT ![s].pc = "hash"] /\ UNCHANGED resp
  /\ UNCHANGED <<now, schedVars, lastCall, dbVars, revoked, issued>>

\* bcrypt.hash settles; the INSERT is issued
SignupHash(s) ==
  /\ reqs[s].pc = "hash"
  /\ reqs' = [reqs EXCEPT ![s].pc = "insUser"]
  /\ UNCHANGED <<now, schedVars, lastCall, dbVars, resp, revoked, issued>>

\* INSERT INTO users (...): email and phone are UNIQUE columns, a duplicate
\* makes the statement throw and the handler's catch answers 500.  Ids are
\* only told apart, so gaps of AUTO_INCREMENT are left out.
SignupInsert(s) ==
  /\ reqs[s].pc = "insUser"
  /\ IF \E u \in users : u.email = reqs[s].email \/ u.phone = reqs[s].phone
       THEN /\ Respond(s, reqs[s], 500, "Duplicate entry", {})
            /\ UNCHANGED users
       ELSE /\ users' = users \cup {[id |-> Cardinality(users) + 1,
                                     email |-> reqs[s].email, phone |-> reqs[s].phone]}
            /\ reqs' = [reqs EXCEPT ![s].pc = "newUser"]
            /\ UNCHANGED resp
  /\ UNCHANGED <<now, schedVars, lastCall, localOffset, user_tokens, user_fcm_tokens, todos,
                 categories, nextTodoId, revoked, issued>>

\* SELECT id, name, email, phone, created_at FROM users WHERE id = ? settles
SignupFetch(s) ==
  /\ reqs[s].pc = "newUser"
  /\ Respond(s, reqs[s], 201, "", {})
  /\ UNCHANGED <<now, schedVars, lastCall, dbVars, revoked, issued>>

Signup(s) == SignupExists(s) \/ SignupHash(s) \/ SignupInsert(s) \/ SignupFetch(s)

\* an empty users table
SignupInit ==
  /\ now = 0
  /\ scheduledReminderJobs = [k \in Keys |-> 0]
  /\ jobs = <<>>
  /\ lastCall = NoCall
  /\ localOffset = 0
  /\ users = {}
  /\ user_tokens = {}
  /\ user_fcm_tokens = [d \in Devices |-> 0]
  /\ todos = [i \in TodoIds |-> NoRow]
  /\ categories = [c \in {1} |-> 1]
  /\ nextTodoId = 1
  /\ reqs = [s \in Slots |-> IdleReq]
  /\ resp = NoResp
  /\ revoked = {}
  /\ issued = 0

SignupNext ==
  \/ \E s \in Slots, email \in Emails \cup {""}, phone \in Phones \cup {""} :
       SignupStart(s, email, phone)
  \/ \E s \in Slots : Signup(s)

SignupSpec == SignupInit /\ [][SignupNext]_vars

\* ------------------------------------------------------------------ gate
\* The middleware in front of the protected routes, with the users of Init
\* sending any header and logging out.
GateNext ==
  \/ \E s \in Slots, op \in {"logout", "listCategories"}, header \in Headers :
          Receive(s, op, header)
  \/ \E s \in Slots : MwReject(s) \/ MwError(s) \/ Logout(s) \/ ListCategories(s)

GateSpec == Init /\ [][GateNext]_vars

\* ------------------------------------------------------------- due dates
\* A due_date string 'YYYY-MM-DD HH:mm:ss' is the number of seconds it reads
\* as a wall clock; an instant is seconds of UTC.  0 is null.
\* moment.tz(string, 'Asia/Kolkata'): the instant at which IST clocks show it.
ParseIST(wall) == wall - OffsetIST
\* moment.format('YYYY-MM-DD HH:mm:ss') of a moment in 'Asia/Kolkata'
FormatIST(instant) == instant + OffsetIST
\* if (due_date) dueDateIST = moment.tz(due_date, 'Asia/Kolkata').format(...)
DueDateIST(due_date) == IF due_date # 0 THEN FormatIST(ParseIST(due_date)) ELSE 0
\* the due_date strings clients send: IST wall clocks of the seconds 1..MaxTime
DueInputs == {FormatIST(i) : i \in 1..MaxTime}

\* ---------------------------------------------------------------- SQL text
\* A statement built by string interpolation is a sequence of lexical tokens;
\* an interpolated request value is a sequence of tokens too, spliced in
\* as it is.
NumStr(n) == <<"0", "1", "2", "3", "4", "5", "6", "7", "8", "9">>[n + 1]
Numbers == {NumStr(n) : n \in 0..9}
Columns == {"user_id", "status", "category_id"}

\* quoted runs become string literals: [q |-> TRUE, v |-> the run]
RECURSIVE LexFrom(_, _, _, _, _)
LexFrom(text, i, inStr, cur, out) ==
  IF i > Len(text)
    THEN [ok |-> ~inStr, toks |-> out]
    ELSE IF text[i] = "'"
      THEN IF inStr
             THEN LexFrom(text, i + 1, FALSE, <<>>, Append(out, [q |-> TRUE, v |-> cur]))
             ELSE LexFrom(text, i + 1, TRUE, <<>>, out)
      ELSE IF inStr
             THEN LexFrom(text, i + 1, TRUE, Append(cur, text[i]), out)
             ELSE LexFrom(text, i + 1, FALSE, cur,
                          Append(out, [q |-> FALSE, v |-> <<text[i]>>]))

IsWord(t, w) == ~t.q /\ t.v = <<w>>

\* the pieces of toks between the occurrences of the keyword kw
RECURSIVE SplitOn(_, _)
SplitOn(toks, kw) ==
  IF \E i \in 1..Len(toks) : IsWord(toks[i], kw)
    THEN LET i == CHOOSE i \in 1..Len(toks) :
                    IsWord(toks[i], kw) /\ \A j \in 1..(i - 1) : ~IsWord(toks[j], kw)
         IN <<SubSeq(toks, 1, i - 1)>> \o SplitOn(SubSeq(toks, i + 1, Len(toks)), kw)
    ELSE <<toks>>

OperandOk(t) == t.q \/ t.v[1] \in Columns \cup Numbers
AtomOk(a) == Len(a) = 3 /\ IsWord(a[2], "=") /\ OperandOk(a[1]) /\ OperandOk(a[3])

\* the value of an operand on a row; <<>> is NULL
ColumnValue(row, col) ==
  CASE col = "user_id" -> <<NumStr(row.owner)>>
    [] col = "status" -> <<row.status>>
    [] col = "category_id" -> IF row.category = 0 THEN <<>> ELSE <<NumStr(row.category)>>
OperandValue(t, row) ==
  IF ~t.q /\ t.v[1] \in Columns THEN ColumnValue(row, t.v[1]) ELSE t.v

AtomTrue(a, row) ==
  /\ OperandValue(a[1], row) # <<>>
  /\ OperandValue(a[1], row) = OperandValue(a[3], row)

\* WHERE <expr>: OR of ANDs of comparisons (AND binds tighter than OR)
WhereOk(text) ==
  /\ LexFrom(text, 1, FALSE, <<>>, <<>>).ok
  /\ LET ors == SplitOn(LexFrom(text, 1, FALSE, <<>>, <<>>).toks, "OR")
     IN \A i \in 1..Len(ors) :
          LET ands == SplitOn(ors[i], "AND")
          IN \A j \in 1..Len(ands) : AtomOk(ands[j])
WhereTrue(text, row) ==
  LET ors == SplitOn(LexFrom(text, 1, FALSE, <<>>, <<>>).toks, "OR")
  IN \E i \in 1..Len(ors) :
       LET ands == SplitOn(ors[i], "AND")
       IN \A j \in 1..Len(ands) : AtomTrue(ands[j], row)

\* filters.join(' AND ') of GET /todos.  The priority and dueDate filters are
\* interpolated between quotes exactly as status is.
ListWhere(userId, status, category) ==
  <<"user_id", "=", NumStr(userId)>>
  \o (IF status # <<>> THEN <<"AND", "status", "=", "'">> \o status \o <<"'">> ELSE <<>>)
  \o (IF category # <<>> THEN <<"AND", "category_id", "=">> \o category ELSE <<>>)

\* req.query.status and req.query.category as sent; <<>> when absent
StatusInputs == {<<>>, <<"pending">>, <<"x", "'", "OR", "'", "1", "'", "=", "'", "1">>}
CategoryInputs == {<<>>, <<"1">>, <<"0", "OR", "1", "=", "1">>, <<"1", "OR">>}

\* ------------------------------------------------------------- todo routes
StoredIds == {i \in TodoIds : todos[i].owner # 0}
\* mysql2 with its default timezone 'local': a DATETIME column comes back as
\* the Date at which the process's own clock shows that wall clock
DateOfDatetime(wall) == wall - localOffset

\* if (todo.due_date) todo.due_date =
\*   moment.utc(todo.due_date).tz('Asia/Kolkata').format('YYYY-MM-DD HH:mm:ss')
renderDue(stored) == IF stored # 0 THEN FormatIST(DateOfDatetime(stored)) ELSE 0

TodoRow(i) ==
  Row(i, todos[i].owner, todos[i].status, todos[i].category, renderDue(todos[i].due))

\* mutant: WHERE id = ? alone
MatchAnyOwner(tbl, todoId, userId) == {i \in {todoId} : tbl[i].owner # 0}

\* rows of todos WHERE id = ? AND user_id = ?
OwnedMatch(tbl, todoId, userId) == {i \in {todoId} : tbl[i].owner = userId}

\* getUserFcmTokens: SELECT fcm_token FROM user_fcm_tokens WHERE user_id = ?
getUserFcmTokens(userId) == {d \in Devices : user_fcm_tokens[d] = userId}

TodoOps == {"create", "update", "delete", "complete", "get", "list",
            "catUpdate", "catDelete"}

\* a todo request arrives; the model's bounds on rows and jobs are kept here
TodoStart(s, op, tok) ==
  /\ Cardinality({x \in Slots : ~Free(x)}) < MaxTodoReq
  /\ op = "create" => nextTodoId + Cardinality(InFlight("create")) <= MaxTodoId
  /\ op \in {"create", "update"} =>
       Len(jobs) + Cardinality(InFlight("create") \cup InFlight("update")) < MaxJobs
  /\ ReqStart(s, op, "bearer", tok)

\* ---- POST /todos
CreateEntry(s, title, due_date, category_id) ==
  /\ Admitted(s) /\ reqs[s].op = "create"
  /\ IF title = ""
       THEN Respond(s, MwAdmit(reqs[s]), 400, "Invalid value", {})
       ELSE /\ reqs' = [reqs EXCEPT ![s] =
                 [MwAdmit(reqs[s]) EXCEPT !.pc = "insert",
                                          !.due = DueDateIST(due_date),
                                          !.cat = category_id]]
            /\ UNCHANGED resp
  /\ UNCHANGED <<now, schedVars, lastCall, dbVars, revoked, issued>>

\* INSERT INTO todos (...).  A category_id that is no row of categories fails
\* the foreign key: the statement throws, the handler answers 500, and the
\* AUTO_INCREMENT value it drew is not given back.
CreateInsert(s) ==
  /\ reqs[s].pc = "insert"
  /\ nextTodoId <= MaxTodoId
  /\ nextTodoId' = nextTodoId + 1
  /\ IF reqs[s].cat # 0 /\ categories[reqs[s].cat] = 0
       THEN /\ Respond(s, reqs[s], 500, "Cannot add or update a child row", {})
            /\ UNCHANGED todos
       ELSE /\ todos' = [todos EXCEPT ![nextTodoId] =
                 [owner |-> reqs[s].uid, status |-> "pending", category |-> reqs[s].cat,
                  due |-> reqs[s].due, touched |-> FALSE,
                  future |-> reqs[s].due # 0 /\ ParseIST(reqs[s].due) > now]]
            /\ reqs' = [reqs EXCEPT ![s].pc = "tokens", ![s].id = nextTodoId]
            /\ UNCHANGED resp
  /\ UNCHANGED <<now, schedVars, lastCall, localOffset, users, user_tokens, user_fcm_tokens, categories,
                 revoked, issued>>

\* scheduleReminderNotification when schedule.scheduleJob throws: the old
\* job is cancelled already, the instant is ahead, nothing is registered
scheduleJobThrows(reg, jbs, key, at) ==
  [reg |-> reg,
   jobs |-> IF reg[key] # 0 THEN JobCancel(jbs, reg[key]) ELSE jbs,
   err |-> at > now]

\* the rest of POST /todos after the immediate push.  An error thrown by the
\* scheduling goes to the handler's catch.
CreateFinish(s, fcmTokens, thrown) ==
  LET r == IF reqs[s].due = 0
             THEN [reg |-> scheduledReminderJobs, jobs |-> jobs, err |-> FALSE]
           ELSE IF thrown
             THEN scheduleJobThrows(scheduledReminderJobs, jobs,
                    NumKey(reqs[s].id), ParseIST(reqs[s].due))
           ELSE scheduleReminderNotification(scheduledReminderJobs, jobs,
                    NumKey(reqs[s].id), ParseIST(reqs[s].due), fcmTokens)
  IN /\ scheduledReminderJobs' = r.reg
     /\ jobs' = r.jobs
     /\ IF r.err THEN Respond(s, reqs[s], 500, "scheduleJob failed", {})
                 ELSE Respond(s, reqs[s], 201, "Todo created", {})

\* getUserFcmTokens settles, with [] when its query failed; with no tokens
\* sendPushNotification returns at once, otherwise the handler is suspended
\* on sendMulticast.
CreateTokens(s, fetched, thrown) ==
  /\ reqs[s].pc = "tokens" /\ reqs[s].op = "create"
  /\ LET fcmTokens == IF fetched THEN getUserFcmTokens(reqs[s].uid) ELSE {}
     IN IF fcmTokens = {}
          THEN CreateFinish(s, {}, thrown)
          ELSE /\ reqs' = [reqs EXCEPT ![s].pc = "push", ![s].fcm = fcmTokens]
               /\ UNCHANGED <<schedVars, resp>>
  /\ UNCHANGED <<now, lastCall, dbVars, revoked, issued>>

\* sendMulticast settles (an error is caught and logged)
CreatePush(s, thrown) ==
  /\ reqs[s].pc = "push" /\ reqs[s].op = "create"
  /\ CreateFinish(s, reqs[s].fcm, thrown)
  /\ UNCHANGED <<now, lastCall, dbVars, revoked, issued>>

\* POST /todos past its validation, nothing failing
CreateTodo(s) == CreateInsert(s) \/ CreateTokens(s, TRUE, FALSE) \/ CreatePush(s, FALSE)

\* ---- PUT /todos/:id
UpdateEntry(s, todoId, due_date, status) ==
  /\ Admitted(s) /\ reqs[s].op = "update"
  /\ reqs' = [reqs EXCEPT ![s] =
       [MwAdmit(reqs[s]) EXCEPT !.pc = "update", !.id = todoId,
                                !.due = DueDateIST(due_date), !.status = status]]
  /\ UNCHANGED <<now, schedVars, lastCall, dbVars, resp, revoked, issued>>

\* UPDATE todos SET ... WHERE id=? AND user_id=?  (category_id is not in the
\* bodies sent here, so it is set to NULL)
UpdateRow(s) ==
  /\ reqs[s].pc = "update"
  /\ IF OwnedMatch(todos, reqs[s].id, reqs[s].uid) = {}
       THEN /\ Respond(s, reqs[s], 404, "Todo not found", {})
            /\ UNCHANGED todos
       ELSE /\ todos' = [todos EXCEPT ![reqs[s].id] =
                 [@ EXCEPT !.status = reqs[s].status, !.category = 0,
                           !.due = reqs[s].due, !.touched = TRUE]]
            /\ reqs' = [reqs EXCEPT ![s].pc = "tokens"]
            /\ UNCHANGED resp
  /\ UNCHANGED <<now, schedVars, lastCall, localOffset, users, user_tokens, user_fcm_tokens, categories,
                 nextTodoId, revoked, issued>>

\* the rest of PUT /todos/:id after the immediate push
UpdateFinish(s, fcmTokens, thrown) ==
  LET c == cancelReminderNotification(scheduledReminderJobs, jobs, StrKey(reqs[s].id))
      r == IF reqs[s].due = 0
             THEN c
           ELSE IF thrown
             THEN scheduleJobThrows(c.reg, c.jobs, StrKey(reqs[s].id),
                                    ParseIST(reqs[s].due))
           ELSE scheduleReminderNotification(c.reg, c.jobs,
                    StrKey(reqs[s].id), ParseIST(reqs[s].due), fcmTokens)
  IN /\ scheduledReminderJobs' = r.reg
     /\ jobs' = r.jobs
     /\ IF r.err THEN Respond(s, reqs[s], 500, "scheduleJob failed", {})
                 ELSE Respond(s, reqs[s], 200, "Todo updated", {})

UpdateTokens(s, fetched, thrown) ==
  /\ reqs[s].pc = "tokens" /\ reqs[s].op = "update"
  /\ LET fcmTokens == IF fetched THEN getUserFcmTokens(reqs[s].uid) ELSE {}
     IN IF fcmTokens = {}
          THEN UpdateFinish(s, {}, thrown)
          ELSE /\ reqs' = [reqs EXCEPT ![s].pc = "push", ![s].fcm = fcmTokens]
               /\ UNCHANGED <<schedVars, resp>>
  /\ UNCHANGED <<now, lastCall, dbVars, revoked, issued>>

UpdatePush(s, thrown) ==
  /\ reqs[s].pc = "push" /\ reqs[s].op = "update"
  /\ UpdateFinish(s, reqs[s].fcm, thrown)
  /\ UNCHANGED <<now, lastCall, dbVars, revoked, issued>>

\* PUT /todos/:id past its entry, nothing failing
UpdateTodo(s) == UpdateRow(s) \/ UpdateTokens(s, TRUE, FALSE) \/ UpdatePush(s, FALSE)

\* ---- DELETE /todos/:id
DeleteEntry(s, todoId) ==
  /\ Admitted(s) /\ reqs[s].op = "delete"
  /\ reqs' = [reqs EXCEPT ![s] = [MwAdmit(reqs[s]) EXCEPT !.pc = "delete", !.id = todoId]]
  /\ UNCHANGED <<now, schedVars, lastCall, dbVars, resp, revoked, issued>>

\* DELETE FROM todos WHERE id = ? AND user_id = ?
DeleteRow(s) ==
  /\ reqs[s].pc = "delete"
  /\ IF OwnedMatch(todos, reqs[s].id, reqs[s].uid) = {}
       THEN /\ Respond(s, reqs[s], 404, "Todo not found", {})
            /\ UNCHANGED <<todos, schedVars>>
       ELSE /\ todos' = [todos EXCEPT ![reqs[s].id] = NoRow]
            /\ LET c == cancelReminderNotification(scheduledReminderJobs, jobs,
                                                   StrKey(reqs[s].id))
               IN scheduledReminderJobs' = c.reg /\ jobs' = c.jobs
            /\ Respond(s, reqs[s], 200, "Todo deleted", {})
  /\ UNCHANGED <<now, lastCall, localOffset, users, user_tokens, user_fcm_tokens, categories,
                 nextTodoId, revoked, issued>>

DeleteTodo(s) == (\E todoId \in TodoIds : DeleteEntry(s, todoId)) \/ DeleteRow(s)

\* ---- POST /todos/:id/complete
CompleteEntry(s, todoId) ==
  /\ Admitted(s) /\ reqs[s].op = "complete"
  /\ reqs' = [reqs EXCEPT ![s] = [MwAdmit(reqs[s]) EXCEPT !.pc = "complete", !.id = todoId]]
  /\ UNCHANGED <<now, schedVars, lastCall, dbVars, resp, revoked, issued>>

\* UPDATE todos SET status = 'completed' WHERE id = ? AND user_id = ?
CompleteRow(s) ==
  /\ reqs[s].pc = "complete"
  /\ IF OwnedMatch(todos, reqs[s].id, reqs[s].uid) = {}
       THEN /\ Respond(s, reqs[s], 404, "Todo not found", {})
            /\ UNCHANGED todos
       ELSE /\ todos' = [todos EXCEPT ![reqs[s].id].status = "completed"]
            /\ Respond(s, reqs[s], 200, "Todo marked as complete", {})
  /\ UNCHANGED <<now, schedVars, lastCall, localOffset, users, user_tokens, user_fcm_tokens, categories,
                 nextTodoId, revoked, issued>>

CompleteTodo(s) == (\E todoId \in TodoIds : CompleteEntry(s, todoId)) \/ CompleteRow(s)

\* ---- GET /todos/:id
GetEntry(s, todoId) ==
  /\ Admitted(s) /\ reqs[s].op = "get"
  /\ reqs' = [reqs EXCEPT ![s] = [MwAdmit(reqs[s]) EXCEPT !.pc = "get", !.id = todoId]]
  /\ UNCHANGED <<now, schedVars, lastCall, dbVars, resp, revoked, issued>>

\* what GET /todos/:id answers user userId on table tbl: status, error, rows
GetAnswer(tbl, todoId, userId) ==
  IF OwnedMatch(tbl, todoId, userId) = {}
    THEN [st |-> 404, err |-> "Todo not found", rows |-> {}]
    ELSE [st |-> 200, err |-> "",
          rows |-> {Row(todoId, tbl[todoId].owner, tbl[todoId].status,
                        tbl[todoId].category, renderDue(tbl[todoId].due))}]

\* SELECT * FROM todos WHERE id = ? AND user_id = ?
GetSelect(s) ==
  /\ reqs[s].pc = "get"
  /\ LET a == GetAnswer(todos, reqs[s].id, reqs[s].uid)
     IN Respond(s, reqs[s], a.st, a.err, a.rows)
  /\ UNCHANGED <<now, schedVars, lastCall, dbVars, revoked, issued>>

GetTodo(s) == (\E todoId \in TodoIds : GetEntry(s, todoId)) \/ GetSelect(s)

\* ---- GET /todos
ListEntry(s) ==
  /\ Admitted(s) /\ reqs[s].op = "list"
  /\ reqs' = [reqs EXCEPT ![s] = [MwAdmit(reqs[s]) EXCEPT !.pc = "list"]]
  /\ UNCHANGED <<now, schedVars, lastCall, dbVars, resp, revoked, issued>>

\* SELECT * FROM todos WHERE <filters>; a statement that does not parse is an
\* error of the query, answered 500.  status and category are req.query's.
ListSelect(s, status, category) ==
  /\ reqs[s].pc = "list"
  /\ LET where == ListWhere(reqs[s].uid, status, category)
     IN IF WhereOk(where)
          THEN Respond(s, reqs[s], 200, "",
                       {TodoRow(i) : i \in {x \in StoredIds : WhereTrue(where, todos[x])}})
          ELSE Respond(s, reqs[s], 500, "You have an error in your SQL syntax", {})
  /\ UNCHANGED <<now, schedVars, lastCall, dbVars, revoked, issued>>

ListTodos(s) ==
  \/ ListEntry(s)
  \/ \E status \in StatusInputs, category \in CategoryInputs : ListSelect(s, status, category)

\* ---- PUT /categories/:id, DELETE /categories/:id
CategoryIds == DOMAIN categories
\* mutant: WHERE id = ? alone
CatMatchAnyOwner(tbl, categoryId, userId) == {c \in {categoryId} \cap DOMAIN tbl : tbl[c] # 0}

\* rows of categories WHERE id = ? AND user_id = ?
CatMatch(tbl, categoryId, userId) == {c \in {categoryId} \cap DOMAIN tbl : tbl[c] = userId}

CatEntry(s, categoryId) ==
  /\ Admitted(s) /\ reqs[s].op \in {"catUpdate", "catDelete"}
  /\ reqs' = [reqs EXCEPT ![s] = [MwAdmit(reqs[s]) EXCEPT !.pc = "cat", !.id = categoryId]]
  /\ UNCHANGED <<now, schedVars, lastCall, dbVars, resp, revoked, issued>>

\* UPDATE categories SET name = ? WHERE id = ? AND user_id = ?
CatUpdateRow(s) ==
  /\ reqs[s].pc = "cat" /\ reqs[s].op = "catUpdate"
  /\ IF CatMatch(categories, reqs[s].id, reqs[s].uid) = {}
       THEN Respond(s, reqs[s], 404, "Category not found", {})
       ELSE Respond(s, reqs[s], 200, "Category updated", {})
  /\ UNCHANGED <<now, schedVars, lastCall, dbVars, revoked, issued>>

\* DELETE FROM categories WHERE id = ? AND user_id = ?; the foreign key of
\* todos.category_id is ON DELETE SET NULL
CatDeleteRow(s) ==
  /\ reqs[s].pc = "cat" /\ reqs[s].op = "catDelete"
  /\ IF CatMatch(categories, reqs[s].id, reqs[s].uid) = {}
       THEN /\ Respond(s, reqs[s], 404, "Category not found", {})
            /\ UNCHANGED <<categories, todos>>
       ELSE /\ categories' = [categories EXCEPT ![reqs[s].id] = 0]
            /\ todos' = [i \in TodoIds |->
                 IF todos[i].category = reqs[s].id
                   THEN [todos[i] EXCEPT !.category = 0] ELSE todos[i]]
            /\ Respond(s, reqs[s], 200, "Category deleted", {})
  /\ UNCHANGED <<now, schedVars, lastCall, localOffset, users, user_tokens, user_fcm_tokens,
                 nextTodoId, revoked, issued>>

Category(s) ==
  \/ \E categoryId \in CategoryIds \cup {2} : CatEntry(s, categoryId)
  \/ CatUpdateRow(s)
  \/ CatDeleteRow(s)

\* ---------------------------------------------------- due date round trip
\* Creating todos and reading them back, on a process whose time zone is UTC
\* or Asia/Kolkata.
LocalOffsets == {0, OffsetIST}

DateInit ==
  /\ now = 0
  /\ scheduledReminderJobs = [k \in Keys |-> 0]
  /\ jobs = <<>>
  /\ lastCall = NoCall
  /\ localOffset \in LocalOffsets
  /\ users = RegisteredUsers
  /\ user_tokens = {<<1, Token(1, 0, "ok")>>, <<2, Token(2, 0, "ok")>>}
  /\ user_fcm_tokens = [d \in Devices |-> IF d = "d1" THEN 1 ELSE 2]
  /\ todos = [i \in TodoIds |-> NoRow]
  /\ categories = [c \in {1} |-> 1]
  /\ nextTodoId = 1
  /\ reqs = [s \in Slots |-> IdleReq]
  /\ resp = NoResp
  /\ revoked = {}
  /\ issued = 2

DateNext ==
  \/ \E s \in Slots, op \in {"create", "get", "list"}, tok \in Presentable :
       TodoStart(s, op, tok)
  \/ \E s \in Slots :
       \/ \E due_date \in DueInputs \cup {0} : CreateEntry(s, "a", due_date, 0)
       \/ CreateTodo(s) \/ GetTodo(s) \/ ListTodos(s)

DateSpec == DateInit /\ [][DateNext]_vars

\* ------------------------------------------------------ concurrent updates
\* Todo 1 of user 1 exists, created by POST /todos without due_date or with a
\* due_date one second ahead (its timer registered under the number 1); PUT
\* /todos/1 requests arrive with no bound on how many are in flight but the
\* slots.
RaceInit ==
  /\ now = 0
  /\ lastCall = NoCall
  /\ localOffset = 0
  /\ users = RegisteredUsers
  /\ user_tokens = {<<1, Token(1, 0, "ok")>>, <<2, Token(2, 0, "ok")>>}
  /\ user_fcm_tokens = [d \in Devices |-> IF d = "d1" THEN 1 ELSE 2]
  /\ categories = [c \in {1} |-> 1]
  /\ nextTodoId = 2
  /\ reqs = [s \in Slots |-> IdleReq]
  /\ resp = NoResp
  /\ revoked = {}
  /\ issued = 2
  /\ \E due \in {0, FormatIST(1)} :
       LET r == IF due = 0
                  THEN [reg |-> [k \in Keys |-> 0], jobs |-> <<>>, err |-> FALSE]
                  ELSE scheduleReminderNotification([k \in Keys |-> 0], <<>>, NumKey(1),
                                                    ParseIST(due), {"d1"})
       IN /\ todos = [i \in TodoIds |->
                IF i = 1 THEN [owner |-> 1, status |-> "pending", category |-> 0,
                               due |-> due, future |-> due # 0, touched |-> FALSE]
                         ELSE NoRow]
          /\ scheduledReminderJobs = r.reg
          /\ jobs = r.jobs

RaceStart(s, tok) ==
  /\ Len(jobs) + Cardinality(InFlight("update")) < MaxJobs
  /\ ReqStart(s, "update", "bearer", tok)

RaceNext ==
  \/ \E s \in Slots : RaceStart(s, Token(1, 0, "ok"))
  \/ \E s \in Slots :
       \/ \E due_date \in DueInputs \cup {0} : UpdateEntry(s, 1, due_date, "pending")
       \/ UpdateTodo(s)
  \/ Timers
  \/ Tick

RaceSpec == RaceInit /\ [][RaceNext]_vars

\* ---------------------------------------------------------------- faults
\* POST /todos and PUT /todos/:id with the token query or the scheduling
\* failing, the clock standing still.  User 2 has no device.
FaultInit ==
  /\ now = 0
  /\ scheduledReminderJobs = [k \in Keys |-> 0]
  /\ jobs = <<>>
  /\ lastCall = NoCall
  /\ localOffset = 0
  /\ users = RegisteredUsers
  /\ user_tokens = {<<1, Token(1, 0, "ok")>>, <<2, Token(2, 0, "ok")>>}
  /\ user_fcm_tokens = [d \in Devices |-> IF d = "d1" THEN 1 ELSE 0]
  /\ todos = [i \in TodoIds |-> NoRow]
  /\ categories = [c \in {1} |-> 1]
  /\ nextTodoId = 1
  /\ reqs = [s \in Slots |-> IdleReq]
  /\ resp = NoResp
  /\ revoked = {}
  /\ issued = 2

FaultNext ==
  \/ \E s \in Slots, op \in {"create", "update"}, tok \in Presentable :
       TodoStart(s, op, tok)
  \/ \E s \in Slots :
       \/ \E due_date \in {0, FormatIST(1)} : CreateEntry(s, "a", due_date, 0)
       \/ \E todoId \in TodoIds, due_date \in {0, FormatIST(2)} :
            UpdateEntry(s, todoId, due_date, "pending")
       \/ CreateInsert(s)
       \/ UpdateRow(s)
       \/ \E fetched, thrown \in BOOLEAN :
            CreateTokens(s, fetched, thrown) \/ UpdateTokens(s, fetched, thrown)
       \/ \E thrown \in BOOLEAN : CreatePush(s, thrown) \/ UpdatePush(s, thrown)

FaultSpec == FaultInit /\ [][FaultNext]_vars

\* -------------------------------------------------------- todo repository
\* Every todo and category route, with the clock standing still.
RepoNext ==
  \/ \E s \in Slots, op \in TodoOps, tok \in Presentable : TodoStart(s, op, tok)
  \/ \E s \in Slots :
       \/ \E title \in {"", "a"}, due_date \in {0, FormatIST(1)}, category_id \in {0, 1} :
            CreateEntry(s, title, due_date, category_id)
       \/ \E todoId \in TodoIds, due_date \in {0, FormatIST(2)},
             status \in {"pending", "completed"} :
            UpdateEntry(s, todoId, due_date, status)
       \/ CreateTodo(s) \/ UpdateTodo(s) \/ DeleteTodo(s) \/ CompleteTodo(s)
       \/ GetTodo(s) \/ ListTodos(s) \/ Category(s)

RepoSpec == Init /\ [][RepoNext]_vars

\* --------------------------------------------------------------- reminders
\* The routes that schedule and cancel reminders, the timers and the clock.
Next ==
  \/ \E s \in Slots, op \in {"create", "update", "delete"}, tok \in Presentable :
       TodoStart(s, op, tok)
  \/ \E s \in Slots :
       \/ \E due_date \in DueInputs \cup {0} : CreateEntry(s, "a", due_date, 0)
       \/ \E todoId \in TodoIds, due_date \in DueInputs \cup {0} :
            UpdateEntry(s, todoId, due_date, "pending")
       \/ CreateTodo(s) \/ UpdateTodo(s) \/ DeleteTodo(s)
  \/ Timers
  \/ Tick

Spec == Init /\ [][Next]_vars

\* ---------------------------------------------------------------- sessions
\* User 1 signed in on device d1 in the current second and holds the token of
\* that signin; further signins of either user and logouts with the token
\* held follow.
SessionInit ==
  /\ now = 0
  /\ scheduledReminderJobs = [k \in Keys |-> 0]
  /\ jobs = <<>>
  /\ lastCall = NoCall
  /\ localOffset = 0
  /\ users = RegisteredUsers
  /\ user_tokens = {<<1, Token(1, 0, "ok")>>}
  /\ user_fcm_tokens = [d \in Devices |-> IF d = "d1" THEN 1 ELSE 0]
  /\ todos = [i \in TodoIds |-> NoRow]
  /\ categories = [c \in {1} |-> 1]
  /\ nextTodoId = 1
  /\ reqs = [s \in Slots |-> IdleReq]
  /\ resp = NoResp
  /\ revoked = {}
  /\ issued = 1

SessionNext ==
  \/ \E s \in Slots :
       Receive(s, "logout", <<Word("Bearer"), Space, Jwt(Token(1, 0, "ok"))>>)
  \/ \E s \in Slots, ident \in UserIds \cup {0} : SigninStart(s, ident)
  \/ \E s \in Slots : MwReject(s) \/ Logout(s) \/ Signin(s)
  \/ LongWait

SessionSpec == SessionInit /\ [][SessionNext]_vars

\* ------------------------------------------------------------ notification
\* User 1 creates todos with a due date and logs out while the timers run.
NotifyNext ==
  \/ \E s \in Slots : TodoStart(s, "create", Token(1, 0, "ok"))
  \/ \E s \in Slots :
       Receive(s, "logout", <<Word("Bearer"), Space, Jwt(Token(1, 0, "ok"))>>)
  \/ \E s \in Slots :
       \/ \E due_date \in DueInputs : CreateEntry(s, "a", due_date, 0)
       \/ CreateTodo(s)
       \/ MwReject(s)
       \/ Logout(s)
  \/ Timers
  \/ Tick

NotifySpec == Init /\ [][NotifyNext]_vars

\* ---------------------------------------------------------------- registry
\* One signed-in user creating, updating, deleting and completing todos while
\* the timers run.
RegistryNext ==
  \/ \E s \in Slots, op \in {"create", "update", "delete", "complete"} :
       TodoStart(s, op, Token(1, 0, "ok"))
  \/ \E s \in Slots :
       \/ \E due_date \in DueInputs \cup {0} : CreateEntry(s, "a", due_date, 0)
       \/ \E todoId \in TodoIds, due_date \in DueInputs \cup {0} :
            UpdateEntry(s, todoId, due_date, "pending")
       \/ CreateTodo(s) \/ UpdateTodo(s) \/ DeleteTodo(s) \/ CompleteTodo(s)
  \/ Timers
  \/ Tick

RegistrySpec == Init /\ [][RegistryNext]_vars

ProtectedOps == {"logout", "listCategories"}

\* C1: the middleware admits a protected request (sets req.user and lets the
\* handler run) exactly when the token's signature verifies and the ledger
\* holds the row (payload id, token) when it is looked up; otherwise the
\* request is answered 401 or 403.  The token's exp is not consulted.
C1_AdmitIffSignedAndListed ==
  /\ \A s \in Slots :
       (reqs[s].op \in ProtectedOps /\ reqs[s].pc # "mw")
         => /\ reqs[s].uid = reqs[s].tok.id
            /\ reqs[s].tok.sig = "ok"
            /\ reqs[s].seen
  /\ resp.op \in ProtectedOps
       => /\ resp.uid # 0 <=> (resp.sig /\ resp.seen)
          /\ resp.uid = 0 <=> resp.st \in {401, 403}

\* C1 witness: a request is admitted, and its handler runs, with a token
\* whose exp has passed.
C1_Witness ==
  \E s \in Slots :
    /\ reqs[s].pc = "selCats"
    /\ reqs[s].uid # 0
    /\ now >= reqs[s].tok.iat + ExpiresIn

\* C2: a protected request that presents a token which a completed logout
\* presented before the request started is never admitted, and is answered
\* 403.
C2_RevokedTokenRejected ==
  /\ \A s \in Slots : reqs[s].rev => reqs[s].pc = "mw" /\ reqs[s].uid = 0
  /\ resp.rev => resp.st = 403 /\ resp.uid = 0

\* C6: scheduleReminderNotification(id, t1) then (id, t2), both in the future
\* and the second call made while the t1 timer is still pending: the t1 timer
\* is cancelled and never fires, and exactly one timer is live for id, at t2,
\* which fires at t2 and at no other time.
C6_ReplaceSemantics ==
  /\ [][\A k \in SchedKeys, at \in 0..MaxTime, f \in SUBSET Devices :
          (/\ CallSchedule(k, at, f)
           /\ at > now
           /\ scheduledReminderJobs[k] # 0
           /\ jobs[scheduledReminderJobs[k]].state = "live")
          => /\ jobs'[scheduledReminderJobs[k]].state = "cancelled"
             /\ {j \in 1..Len(jobs') : jobs'[j].key = k /\ jobs'[j].state = "live"}
                  = {Len(jobs')}
             /\ jobs'[Len(jobs')].at = at]_vars
  /\ [][\A j \in 1..Len(jobs) :
          /\ jobs[j].state = "cancelled" => jobs'[j].state = "cancelled"
          /\ jobs[j].state = "fired" => jobs'[j] = jobs[j]]_vars
  /\ [](\A j \in 1..Len(jobs) :
          jobs[j].state \in {"running", "fired"} => jobs[j].firedAt = jobs[j].at)

\* C6 witness: a timer was replaced by a second call for the same key, and
\* the replacing timer has fired while the replaced one stays cancelled.
C6_Witness ==
  \E j1, j2 \in 1..Len(jobs) :
    /\ j1 < j2
    /\ jobs[j1].key = jobs[j2].key
    /\ jobs[j1].at # jobs[j2].at
    /\ jobs[j1].state = "cancelled"
    /\ jobs[j2].state = "fired"
    /\ lastCall = [op |-> "schedule", key |-> jobs[j2].key, past |-> FALSE, had |-> TRUE]

\* C8: scheduleReminderNotification(id, t) with t at or before now creates no
\* timer and fires nothing, and a key without a registry entry still has
\* none.
C8_PastInstantNoTimer ==
  [][\A k \in SchedKeys, at \in 0..MaxTime, f \in SUBSET Devices :
       (CallSchedule(k, at, f) /\ at <= now)
       => /\ Len(jobs') = Len(jobs)
          /\ \A j \in 1..Len(jobs) :
               /\ jobs'[j].firedAt = jobs[j].firedAt
               /\ jobs'[j].state = "live" => jobs[j].state = "live"
          /\ scheduledReminderJobs[k] = 0 => scheduledReminderJobs'[k] = 0]_vars

\* C8 witness: a call with a past instant was made for a key without an
\* entry, after time has passed, and the key has no entry.
C8_Witness ==
  /\ lastCall.op = "schedule" /\ lastCall.past /\ ~lastCall.had
  /\ now > 0
  /\ scheduledReminderJobs[lastCall.key] = 0

\* C9: cancelReminderNotification(id) raises no error; on a key without a
\* registry entry it changes neither the registry nor any timer; a second
\* call right after the first changes nothing more.
C9_CancelIdempotent ==
  \A k \in Keys :
    LET r1 == cancelReminderNotification(scheduledReminderJobs, jobs, k)
        r2 == cancelReminderNotification(r1.reg, r1.jobs, k)
    IN /\ ~r1.err /\ ~r2.err
       /\ r2.reg = r1.reg /\ r2.jobs = r1.jobs
       /\ r1.reg[k] = 0
       /\ scheduledReminderJobs[k] = 0
            => r1.reg = scheduledReminderJobs /\ r1.jobs = jobs

\* C9 witness: cancel was called for a key that had no entry, while a timer
\* of another key is live.
C9_Witness ==
  /\ lastCall.op = "cancel" /\ ~lastCall.had
  /\ \E j \in LiveJobs : jobs[j].key # lastCall.key

\* C3: when a signed-in user's get, update, delete or complete names a todo
\* that another user owns, the request is answered 404 with no row in the
\* body and ends there, and the todo's row, the registry and every timer are
\* as before.
C3_ForeignTodoUntouched ==
  [][\A s \in Slots :
       (/\ GetSelect(s) \/ UpdateRow(s) \/ DeleteRow(s) \/ CompleteRow(s)
        /\ reqs[s].id \in StoredIds
        /\ todos[reqs[s].id].owner # reqs[s].uid)
       => /\ resp'.st = 404 /\ resp'.rows = {}
          /\ resp'.op = reqs[s].op /\ resp'.uid = reqs[s].uid
          /\ reqs'[s] = IdleReq
          /\ todos' = todos
          /\ scheduledReminderJobs' = scheduledReminderJobs
          /\ jobs' = jobs]_vars

\* C3 witness: user 2's delete was answered 404 while every todo id is a todo
\* of user 1, one of them with a live timer.
C3_Witness ==
  /\ resp.op = "delete" /\ resp.uid = 2 /\ resp.st = 404
  /\ StoredIds = TodoIds
  /\ \A i \in TodoIds : todos[i].owner = 1
  /\ LiveJobs # {}

\* C4: every row in the answer to GET /todos is owned by the user who asked,
\* whatever the status and category filters are.
C4_ListOwnerScoped ==
  resp.op = "list" => \A row \in resp.rows : row.owner = resp.uid

\* what is left of the tables when other users' rows are taken out
OwnTodos(userId) ==
  [i \in TodoIds |-> IF todos[i].owner = userId THEN todos[i] ELSE NoRow]
OwnCategories(userId) ==
  [c \in DOMAIN categories |-> IF categories[c] = userId THEN userId ELSE 0]

C7_OneLiveTimerPerTodo ==
  \A i \in TodoIds : Cardinality(LiveJobsOf(i)) <= 1

\* C10: once the due instant of a todo has passed, the todo having been
\* inserted before that instant and not updated or deleted since, and no
\* request being in progress, exactly one timer of the todo has fired, at
\* that instant, for the owner's device tokens.
C10_ReminderFiresOnce ==
  \A i \in StoredIds :
    (/\ todos[i].future /\ ~todos[i].touched
     /\ now > ParseIST(todos[i].due)
     /\ \A s \in Slots : Free(s))
    => /\ Cardinality({j \in 1..Len(jobs) :
                        jobs[j].todo = i /\ jobs[j].state \in {"running", "fired"}}) = 1
       /\ \A j \in 1..Len(jobs) :
            (jobs[j].todo = i /\ jobs[j].state \in {"running", "fired"})
            => /\ jobs[j].firedAt = ParseIST(todos[i].due)
               /\ jobs[j].fcm = getUserFcmTokens(todos[i].owner)

\* the header reads 'Bearer <token>': the word Bearer, one space, one more
\* part without a space
ExactlyBearer(h) ==
  /\ Len(h) = 3
  /\ h[1] = Word("Bearer") /\ h[2] = Space /\ h[3] # Space

\* C11: a protected request without Authorization header is answered 401;
\* with a header that is not 'Bearer <token>', 401; with a token whose
\* signature does not verify, 403; with a verified token that has no ledger
\* row (the lookup itself succeeding), 403.  In each case the request ends with that one answer and no
\* handler has run for it (req.user was never set).
C11_RejectionLadder ==
  /\ [][\A s \in Slots, op \in ProtectedOps :
        (FirstFree(s) /\ (reqs'[s].op = op \/ (reqs' = reqs /\ resp'.op = op)))
        => \A h \in Headers :
          Receive(s, op, h)
          => LET rejected(st) == /\ resp'.st = st /\ resp'.op = op /\ resp'.uid = 0
                                 /\ reqs'[s] = IdleReq
             IN /\ h = <<>> => rejected(401)
                /\ (h # <<>> /\ ~ExactlyBearer(h)) => rejected(401)
                /\ (ExactlyBearer(h) /\ h[3].t.sig # "ok") => rejected(403)
                /\ (ExactlyBearer(h) /\ h[3].t.sig = "ok")
                     => reqs'[s].pc = "mw" /\ reqs'[s].uid = 0 /\ resp' = NoResp]_vars
  /\ [][\A s \in Slots :
          (reqs[s].pc = "mw" /\ reqs[s].op \in ProtectedOps
             /\ <<reqs[s].tok.id, reqs[s].tok>> \notin user_tokens
             /\ reqs'[s] # reqs[s] /\ ~MwError(s))
          => /\ resp'.st = 403 /\ resp'.op = reqs[s].op /\ resp'.uid = 0
             /\ reqs'[s] = IdleReq]_vars
  /\ [](\A s \in Slots : reqs[s].pc = "mw" => reqs[s].uid = 0)

\* C11 witness: a token with a good signature and no ledger row was answered
\* 403 by the ledger rung.
C11_Witness ==
  /\ resp.op \in ProtectedOps /\ resp.st = 403 /\ resp.sig /\ ~resp.seen
  /\ resp.err = "Token not recognized, please login again"
  /\ resp.uid = 0

\* C12: a POST /todos or PUT /todos/:id whose INSERT or UPDATE succeeded is
\* answered 201 or 200 and leaves the row as written, whether the owner has
\* no device token, the token query fails, the push throws, or the scheduling
\* throws.
C12_NotificationNeverFails ==
  [][\A s \in Slots :
       (reqs[s].pc \in {"tokens", "push"} /\ reqs'[s] = IdleReq)
       => /\ resp'.st = IF reqs[s].op = "create" THEN 201 ELSE 200
          /\ todos' = todos]_vars

\* C13: a signup that ends while a user with its email or its phone is in
\* the table is answered 409 and adds no row; no two users share an email.
C13_DuplicateIsConflict ==
  /\ [][\A s \in Slots :
          (/\ reqs[s].op = "signup" /\ reqs[s].pc # "newUser"
           /\ reqs'[s] = IdleReq
           /\ existingUsers(reqs[s].email, reqs[s].phone) # {})
          => resp'.st = 409 /\ users' = users]_vars
  /\ [](\A u, v \in users : u.email = v.email => u = v)

\* C14: the due_date the handler takes from the request body is the one it
\* stores, and the due_date GET /todos/:id and GET /todos answer with is the
\* one stored: what was submitted as an Asia/Kolkata wall clock comes back
\* the same string.
C14_DueDateRoundTrip ==
  /\ [][\A s \in Slots, due_date \in DueInputs :
          CreateEntry(s, "a", due_date, 0) => reqs'[s].due = due_date]_vars
  /\ [][\A s \in Slots : CreateInsert(s) => todos'[nextTodoId].due = reqs[s].due]_vars
  /\ []((resp.op \in {"get", "list"} /\ resp.st = 200)
          => \A row \in resp.rows : row.due = todos[row.id].due)

\* C15: a ledger row is removed only by the logout that presents its token,
\* for its user; every row of the ledger, whoever holds it and however many
\* its user holds, passes both rungs of the middleware.
C15_LogoutRemovesOnlyItsToken ==
  /\ [][\A row \in user_tokens :
          row \notin user_tokens'
          => \E s \in Slots : /\ LogoutDeleteToken(s)
                              /\ reqs[s].tok = row[2] /\ reqs[s].uid = row[1]]_vars
  /\ [](\A row \in user_tokens :
          jwtVerify(row[2]) /\ authLookup(row[2].id, row[2]) # {})

\* C15 witness: after the logout of one token of a user has completed, a
\* request presenting another token of the same user is at the ledger rung
\* and is admitted.
C15_Witness ==
  \E s \in Slots, t1 \in revoked :
    /\ ~InLedger(t1)
    /\ reqs[s].tok # t1 /\ reqs[s].tok.id = t1.id
    /\ Admitted(s)

\* C16: from a request's arrival to the end of the middleware, whether it
\* ends in 401, 403, 500 or in the handler being entered, the tables and the
\* reminder registry are as before; a request is at the ledger lookup once,
\* right after it arrived.
C16_MiddlewarePureGate ==
  /\ [][\A s \in Slots :
          (\/ reqs[s].pc = "mw" /\ reqs'[s] # reqs[s]
           \/ Free(s) /\ (reqs'[s].pc = "mw" \/ (reqs' = reqs /\ resp' # resp)))
          => /\ UNCHANGED <<users, user_tokens, user_fcm_tokens, todos, categories,
                            nextTodoId, scheduledReminderJobs, jobs>>
             /\ reqs'[s].pc # "mw" \/ Free(s)]_vars
  /\ [][\A s \in Slots : (reqs'[s].pc = "mw" /\ reqs'[s] # reqs[s]) => Free(s)]_vars

\* C16 witness: the middleware has just answered 500, and before that it
\* had turned away a logged-out token, with rows left in the ledger.
C16_Witness ==
  /\ resp.st = 500 /\ resp.err = "Database error"
  /\ revoked # {}
  /\ user_tokens # {}

\* C17: scheduleReminderNotification(id, t) with t at or before now changes
\* nothing: every timer, a live one of id included, and the registry are as
\* before the call.
C17_PastInstantNoEffect ==
  [][\A k \in SchedKeys, at \in 0..MaxTime, f \in SUBSET Devices :
       (CallSchedule(k, at, f) /\ at <= now)
       => jobs' = jobs /\ scheduledReminderJobs' = scheduledReminderJobs]_vars

\* C18: every live timer is the one the registry holds under its key (so
\* cancelReminderNotification reaches it); a callback that finishes removes
\* the entry only if the entry is its own job.
C18_TimerRemovesOnlyItself ==
  /\ [](\A j \in LiveJobs : scheduledReminderJobs[jobs[j].key] = j)
  /\ [][\A j \in 1..Len(jobs) :
          (TimerDone(j) /\ scheduledReminderJobs[jobs[j].key] # j)
          => scheduledReminderJobs' = scheduledReminderJobs]_vars

\* C19: with PUT /todos/:id requests of one todo interleaving at their
\* awaits, the todo never has two live timers, and once no request is in
\* progress a live timer of the todo is the one the registry holds under its
\* key.
C19_ConcurrentUpdatesOneTimer ==
  \A i \in TodoIds :
    /\ Cardinality(LiveJobsOf(i)) <= 1
    /\ (\A s \in Slots : Free(s))
         => \A j \in LiveJobsOf(i) : scheduledReminderJobs[jobs[j].key] = j

\* C20: whenever no request and no timer callback is in progress, the
\* reminder registry has at most as many entries as there are stored todos
\* whose due_date is still ahead.
C20_RegistryBound ==
  (/\ \A s \in Slots : Free(s)
   /\ \A j \in 1..Len(jobs) : jobs[j].state # "running")
    => Cardinality({k \in Keys : scheduledReminderJobs[k] # 0})
         <= Cardinality({i \in StoredIds :
                           todos[i].due # 0 /\ ParseIST(todos[i].due) >= now})

\* C21: once a DELETE /todos/:id, or a PUT /todos/:id without due_date, has
\* answered 200 and no request is in progress, the todo has no timer that can
\* still fire and the registry holds no entry for it, under either key.
C21_CancelledNeverFires ==
  (\A s \in Slots : Free(s))
    => \A i \in TodoIds :
         (\/ i < nextTodoId /\ i \notin StoredIds
          \/ i \in StoredIds /\ todos[i].due = 0)
           => /\ LiveJobsOf(i) = {}
              /\ scheduledReminderJobs[NumKey(i)] = 0
              /\ scheduledReminderJobs[StrKey(i)] = 0

\* C22: POST /todos and PUT /todos/:id answer without waiting for the
\* immediate push notification: no request is ever held, its response
\* unsent, until sendMulticast settles.
C22_ResponseNotBlockedOnPush ==
  \A s \in Slots :
    reqs[s].op \in {"create", "update"} => reqs[s].pc # "push"

\* C23: when POST /signin answers 200 the ledger holds the row of the token
\* it hands out, and a POST /signin that answers 401 has generated no token,
\* taken no device token and changes neither table.
C23_SigninTokenListed ==
  [][\A s \in Slots :
       (reqs[s].op = "signin" /\ reqs[s].pc # "idle" /\ reqs'[s] = IdleReq)
         => /\ resp'.st = 200 => <<reqs[s].uid, reqs[s].tok>> \in user_tokens'
            /\ resp'.st = 401 => /\ reqs[s].tok = NoToken
                                 /\ reqs[s].fcm = {}
                                 /\ user_tokens' = user_tokens
                                 /\ user_fcm_tokens' = user_fcm_tokens]_vars

\* C24: when POST /signin of user U with device token d answers 200, d's row
\* in user_fcm_tokens belongs to U, so getUserFcmTokens(U) returns d and no
\* other user's list has it.
C24_DeviceTokenFollowsSignin ==
  [][\A s \in Slots :
       (/\ reqs[s].op = "signin" /\ reqs[s].pc = "insFcm"
        /\ reqs'[s] = IdleReq /\ resp'.st = 200)
         => \A d \in reqs[s].fcm : user_fcm_tokens'[d] = reqs[s].uid]_vars

\* C25: when a reminder fires, every device token it dispatches to is, at
\* that moment, registered in user_fcm_tokens for the owner of the todo.
C25_ReminderUsesCurrentTokens ==
  [][\A j \in 1..Len(jobs) :
       (/\ TimerFire(j)
        /\ jobs[j].todo \in StoredIds)
         => jobs[j].fcm \subseteq getUserFcmTokens(todos[jobs[j].todo].owner)]_vars

====
